---- MODULE Spec2Model ----
(***************************************************************************)
(* Model of src/spanish_translator.py: a sequential batch translator that  *)
(* loads a table from a checkpoint or from the source file, translates     *)
(* each pending row through a primary provider with retry/backoff and a    *)
(* fallback provider, truncates, stores, checkpoints every tenth row       *)
(* index, and writes the output file.                                      *)
(*                                                                         *)
(* Text is a sequence of one-character strings.  A table cell or a value   *)
(* handled by the script is a record [k, s]: k = "str" with text s,        *)
(* k = "nan" for a missing value (pandas NaN / pd.NA), k = "none" for a    *)
(* non-text object returned by a provider (Python None).                   *)
(*                                                                         *)
(* The names MyMemoryTranslator (line 33) and requests (line 55) are not   *)
(* imported by the script.  Line 33 raises NameError on every start of the *)
(* script as it is, before the loop; the loop runs only in an interpreter  *)
(* whose namespace already binds MyMemoryTranslator.  Which of the two     *)
(* holds is an input of each start (MakeTranslators).  Evaluating the      *)
(* except clause of line 55 raises NameError, which leaves translate_text  *)
(* and the loop.                                                           *)
(*                                                                         *)
(* df.to_csv overwrites its file in place.  A process killed while line 79 *)
(* runs leaves a checkpoint file of no bytes or of the first rows only     *)
(* (KillDuringSave), and so does a process killed while line 95 writes the *)
(* output file (KillDuringFinish); cuts are modelled at row boundaries.    *)
(***************************************************************************)
EXTENDS Integers, Sequences, FiniteSets, TLC

\* ------------------------------------------------------------------ bounds
MaxRows == 2        \* rows of the source file
MaxRuns == 2        \* process starts (1 + restarts after a kill or a crash)
MaxTextLen == 4     \* length of the texts given to truncate_text on its own
MaxCut == 3         \* largest max_length given to truncate_text on its own
LongRows == 11      \* rows of the long source file

\* ------------------------------------------------------- program constants
max_retries == 5    \* line 35, default of translate_with_backoff
TruncLen == 150     \* lines 73 and 75
CheckpointEvery == 10   \* line 78
RateDelay_none == 1 - 1   \* no pause between rows
RateDelay == 1      \* line 90

\* -------------------------------------------------------------------- text
Ellipsis == <<".", ".", ".">>

\* "Translation failed", the prefix of lines 42 and 51
TranslationFailed ==
    <<"T","r","a","n","s","l","a","t","i","o","n"," ","f","a","i","l","e","d">>

StartsWith(s, p) == Len(s) >= Len(p) /\ SubSeq(s, 1, Len(p)) = p

HasSpace(s) == \E i \in 1..Len(s) : s[i] = " "

LastSpace(s) == CHOOSE i \in 1..Len(s) :
                    s[i] = " " /\ \A j \in (i+1)..Len(s) : s[j] # " "

\* s.rsplit(' ', 1)[0]: what precedes the last space, or s when it has none
RsplitHead(s) == IF HasSpace(s) THEN SubSeq(s, 1, LastSpace(s) - 1) ELSE s

\* text[:n]
Slice(text, n) == SubSeq(text, 1, IF n < Len(text) THEN n ELSE Len(text))

\* def truncate_text(text, max_length=150), lines 62-65
truncate_text(text, max_length) ==
    IF Len(text) <= max_length
    THEN text
    ELSE RsplitHead(Slice(text, max_length)) \o Ellipsis

\* ------------------------------------------------------------------ values
NaN == [k |-> "nan", s |-> <<>>]
NoneVal == [k |-> "none", s |-> <<>>]
Str(s) == [k |-> "str", s |-> s]

\* pd.isna(x), lines 47 and 72
isna(x) == x.k = "nan"

\* str(x), line 73: a missing summary becomes the text "nan"
str(x) == IF x.k = "nan" THEN <<"n","a","n">>
          ELSE IF x.k = "none" THEN <<"N","o","n","e">>
          ELSE x.s

\* f"Translation failed: {e}", line 42
FailureMarker(e) == TranslationFailed \o <<":", " ">> \o e

\* result.startswith("Translation failed"), line 51
IsFailure(result) == StartsWith(result, TranslationFailed)

\* a retry loop that gives up one attempt early
LastAttempt_early(attempt) == attempt = max_retries - 2

\* attempt == max_retries - 1, line 41
LastAttempt(attempt) == attempt = max_retries - 1

\* a linear backoff in place of the exponential one
BackoffDelay_linear(attempt) == 2 * attempt

\* 2 ** attempt, line 43
BackoffDelay(attempt) == 2 ^ attempt

\* index % 10 == 0, line 78
CheckpointDue(index) == index % CheckpointEvery = 0

\* truncate_text(translated_text, 150), the value assigned at line 75
Stored(translated_text) == truncate_text(translated_text, TruncLen)

\* ------------------------------------------------------------- CSV files
\* Fields that pd.read_csv reads as missing (among pandas' default NA
\* tokens, those that can be written with the model's texts).
NaTokens == { <<>>, <<"n","a","n">> }

\* DataFrame.to_csv writes a missing value as an empty field, text as is
to_csv_cell(x) == IF x.k = "str" THEN x.s ELSE <<>>

\* pd.read_csv reads an empty field (and the NA tokens) as missing
read_csv_cell(f) == IF f \in NaTokens THEN NaN ELSE Str(f)

to_csv(d) == [i \in 1..Len(d) |->
                [summary |-> to_csv_cell(d[i].summary),
                 translated_summary |-> to_csv_cell(d[i].translated_summary)]]

read_csv(rows) == [i \in 1..Len(rows) |->
                [summary |-> read_csv_cell(rows[i].summary),
                 translated_summary |-> read_csv_cell(rows[i].translated_summary)]]

NoFile == [exists |-> FALSE, header |-> FALSE, rows |-> <<>>]
File(rows) == [exists |-> TRUE, header |-> TRUE, rows |-> rows]
\* a file that was opened for writing and never written: no bytes
EmptyFile == [exists |-> TRUE, header |-> FALSE, rows |-> <<>>]

\* ------------------------------------------------------------ environment
Hola == <<"H","o","l","a">>

\* Fields of the source file's summary column: an empty field, or text.
Summaries == { <<>>, Hola }

OkText == <<"o","k">>
\* a translation that happens to begin with the words "Translation failed"
PrefixText == TranslationFailed \o <<"?">>
\* a translation of 160 characters with a space every 8th character
LongText == [i \in 1..160 |-> IF i % 8 = 0 THEN " " ELSE "a"]

\* What translator.translate(text) may return: text, among it the empty
\* text, or an object that is no text.
TextVals == { Str(OkText), Str(<<>>), Str(PrefixText), Str(LongText) }
RetVals == TextVals \cup { NoneVal }

\* str(e) of the exceptions translator.translate(text) may raise
Errors == { <<"e">> }

\* "Translation failed after maximum retries", line 44
ExhaustedText == TranslationFailed \o
    <<" ","a","f","t","e","r"," ","m","a","x","i","m","u","m"," ",
      "r","e","t","r","i","e","s">>

\* ------------------------------------------------------------------ state
VARIABLES
    src,            \* the source file: the summary field of each row
    ckpt,           \* the checkpoint file
    ckptSet,        \* rows whose translated_summary was set in the dataset
                    \* that the checkpoint file was written from
    out,            \* the output file
    outWrites,      \* writes of the output file by the running process
    pc,             \* position of the process in the script
    runs,           \* process starts so far
    df,             \* the in-memory table
    idx,            \* index of the loop (0-based, as in the script)
    visited,        \* row indices the loop has visited in this run
    resumeSet,      \* ckptSet as it was when this run loaded the checkpoint
    original_text,  \* line 73
    attempt,        \* loop variable of translate_with_backoff
    result,         \* value returned by translate_with_backoff / translate_text
    rowlog,         \* provider calls, log lines and sleeps of the current row
    lastErr,        \* str(e) of the exception caught last at line 39
    ckptLog,        \* rows named by "Checkpoint saved at row ..." in this run
    delays,         \* time.sleep(1) of line 90 done in this run
    sinceCall,      \* time slept since the latest first provider call of a
                    \* row, counted up to one unit; -1 before any call
    stats,          \* the statistics of lines 99-101
    t_pc, t_text, t_n, t_once, t_twice   \* truncate_text applied on its own

pipeVars == <<src, ckpt, ckptSet, out, outWrites, pc, runs, df, idx, visited,
              resumeSet, original_text, attempt, result, rowlog,
              lastErr, ckptLog, delays, sinceCall, stats>>
truncVars == <<t_pc, t_text, t_n, t_once, t_twice>>
vars == <<src, ckpt, ckptSet, out, outWrites, pc, runs, df, idx, visited,
          resumeSet, original_text, attempt, result, rowlog,
          lastErr, ckptLog, delays, sinceCall, stats,
          t_pc, t_text, t_n, t_once, t_twice>>

\* NameError of line 33 and of line 55
NoMyMemory == "NameError: MyMemoryTranslator"
NoRequests == "NameError: requests"

\* the process has ended without reaching the end of the script, or has not
\* been started
Stopped == {"start", "killed", NoMyMemory, NoRequests, "TypeError",
            "EmptyDataError"}

Running == {"loop", "primary", "fallback", "store", "ckpt", "sleep"}

Who == IF pc = "primary" THEN "google" ELSE "mymemory"

Event(ev, who, n) == [ev |-> ev, who |-> who, n |-> n]

\* row of df with 0-based index i
Row(i) == df[i + 1]

\* for index, row in df.iterrows(), line 71: another row is left
HasNext(index, n) == index < n

\* a test that also takes up again the rows that failed
IsPending_retry(row) ==
    \/ isna(row.translated_summary)
    \/ row.translated_summary.k = "str" /\ IsFailure(row.translated_summary.s)

\* pd.isna(row['translated_summary']), line 72
IsPending(row) == isna(row.translated_summary)

\* the rows of a table whose translated_summary is set
SetRows(d) == { i \in 0..(Len(d) - 1) : ~isna(d[i + 1].translated_summary) }

SourceFiles == UNION { [1..n -> Summaries] : n \in 1..MaxRows }

NoStats == [total |-> 0, successful |-> 0, failed |-> 0]

\* "Network error" and "Unexpected error", lines 57, 60 and 101
NetworkError == <<"N","e","t","w","o","r","k"," ","e","r","r","o","r">>
UnexpectedError ==
    <<"U","n","e","x","p","e","c","t","e","d"," ","e","r","r","o","r">>

\* the prefixes of line 101
FailurePrefixes == { TranslationFailed, NetworkError, UnexpectedError }

\* the rows line 101 counts: str.startswith(prefixes, na=False)
FailedRows(d) ==
    { i \in 1..Len(d) :
        /\ d[i].translated_summary.k = "str"
        /\ \E p \in FailurePrefixes : StartsWith(d[i].translated_summary.s, p) }

\* a count of the rows that are set and are no failure marker
successful_translations_net(d) ==
    Cardinality({ i \in 1..Len(d) : ~isna(d[i].translated_summary) } \ FailedRows(d))

\* df['translated_summary'].notna().sum(), line 100
successful_translations(d) ==
    Cardinality({ i \in 1..Len(d) : ~isna(d[i].translated_summary) })

\* line 101
failed_translations(d) == Cardinality(FailedRows(d))

\* lines 99-101
Statistics(d) == [total |-> Len(d),
                  successful |-> successful_translations(d),
                  failed |-> failed_translations(d)]

\* a store that leaves the table as it was
At_none(d, index, v) == d

\* an assignment that overwrites the whole row
At_row(d, index, v) == [d EXCEPT ![index + 1] = [summary |-> v, translated_summary |-> v]]

\* df.at[index, 'translated_summary'] = v, line 75
At(d, index, v) == [d EXCEPT ![index + 1].translated_summary = v]

\* elapsed time is followed up to one time unit
Cap(t) == IF t > 1 THEN 1 ELSE t

\* time t later
Later(since, t) == IF since < 0 THEN since ELSE Cap(since + t)

\* the call about to be made is the first provider call of the row
FirstCall == pc = "primary" /\ attempt = 0

MemoryInit ==
    /\ lastErr = <<>> /\ ckptLog = <<>> /\ delays = 0 /\ sinceCall = -1
    /\ stats = NoStats

TruncIdle == /\ t_pc = "idle" /\ t_text = <<>> /\ t_n = 0
             /\ t_once = <<>> /\ t_twice = <<>>

Init ==
    /\ src \in SourceFiles
    /\ ckpt = NoFile /\ ckptSet = {}
    /\ out = NoFile /\ outWrites = 0
    /\ pc = "start" /\ runs = 0
    /\ df = <<>> /\ idx = 0 /\ visited = {} /\ resumeSet = {}
    /\ original_text = <<>> /\ attempt = 0 /\ result = NaN /\ rowlog = <<>>
    /\ MemoryInit
    /\ TruncIdle

\* The process is gone: its memory with it.  The files stay.
Dies(how) ==
    /\ pc' = how
    /\ df' = <<>> /\ idx' = 0 /\ visited' = {} /\ resumeSet' = {}
    /\ original_text' = <<>> /\ attempt' = 0 /\ result' = NaN /\ rowlog' = <<>>
    /\ outWrites' = 0
    /\ lastErr' = <<>> /\ ckptLog' = <<>> /\ delays' = 0 /\ sinceCall' = -1
    /\ stats' = NoStats
    /\ UNCHANGED <<src, ckpt, ckptSet, out, runs>>

\* lines 19-29: load the checkpoint if there is one, else the source file
\* with a new translated_summary column of missing values
\* (pd.read_csv of a file of no bytes raises EmptyDataError)
Load ==
    /\ pc \in Stopped
    /\ runs < MaxRuns
    /\ runs' = runs + 1
    /\ IF ckpt.exists /\ ~ckpt.header
       THEN /\ df' = <<>> /\ resumeSet' = {}
            /\ pc' = "EmptyDataError"
       ELSE /\ df' = IF ckpt.exists
                     THEN read_csv(ckpt.rows)
                     ELSE [i \in 1..Len(src) |->
                             [summary |-> read_csv_cell(src[i]),
                              translated_summary |-> NaN]]
            /\ resumeSet' = IF ckpt.exists THEN ckptSet ELSE {}
            /\ pc' = "translators"
    /\ idx' = 0 /\ visited' = {} /\ outWrites' = 0
    /\ original_text' = <<>> /\ attempt' = 0 /\ result' = NaN /\ rowlog' = <<>>
    /\ lastErr' = <<>> /\ ckptLog' = <<>> /\ delays' = 0 /\ sinceCall' = -1
    /\ stats' = NoStats
    /\ UNCHANGED <<src, ckpt, ckptSet, out>>
    /\ UNCHANGED truncVars

\* lines 32-33: GoogleTranslator(...), then MyMemoryTranslator(...): the name
\* is bound (b) or, as in the script run on its own, it is not and line 33
\* raises NameError
MakeTranslators(bound) ==
    /\ pc = "translators"
    /\ \E b \in bound :
         IF b
         THEN /\ pc' = "loop"
              /\ UNCHANGED <<src, ckpt, ckptSet, out, outWrites, runs, df, idx,
                             visited, resumeSet, original_text, attempt, result,
                             rowlog, lastErr, ckptLog, delays, sinceCall, stats>>
         ELSE Dies(NoMyMemory)
    /\ UNCHANGED truncVars

\* lines 71-72, 87-90: a row whose translated_summary is set is passed over
SkipRow ==
    /\ pc = "loop" /\ HasNext(idx, Len(df))
    /\ ~IsPending(Row(idx))
    /\ visited' = visited \cup {idx}
    /\ rowlog' = <<>>
    /\ pc' = "sleep"
    /\ UNCHANGED <<src, ckpt, ckptSet, out, outWrites, runs, df, idx,
                   resumeSet, original_text, attempt, result,
                   lastErr, ckptLog, delays, sinceCall, stats>>
    /\ UNCHANGED truncVars

\* lines 71-74, 47-50: a pending row: truncate the summary, enter
\* translate_text
BeginRow ==
    /\ pc = "loop" /\ HasNext(idx, Len(df))
    /\ IsPending(Row(idx))
    /\ visited' = visited \cup {idx}
    /\ rowlog' = <<>>
    /\ LET text == truncate_text(str(Row(idx).summary), TruncLen) IN
         /\ original_text' = text
         /\ IF text = <<>>
            THEN /\ result' = Str(<<>>) /\ pc' = "store"
            ELSE /\ result' = NaN /\ pc' = "primary"
    /\ attempt' = 0
    /\ UNCHANGED <<src, ckpt, ckptSet, out, outWrites, runs, df, idx, resumeSet,
                   lastErr, ckptLog, delays, sinceCall, stats>>
    /\ UNCHANGED truncVars

\* translate_with_backoff has returned ret, lines 50-54, with log the row's
\* log up to then, since the time since the row's first call and err the
\* exception caught last.  A value that is no text has no startswith (line 51); the
\* AttributeError reaches the except clauses, and naming `requests` at line
\* 55 raises NameError, which nothing catches.
Return(ret, log, since, err) ==
    IF pc = "primary"
    THEN IF ret.k # "str"
         THEN Dies(NoRequests)
         ELSE /\ result' = ret
              /\ attempt' = 0
              /\ IF IsFailure(ret.s)
                 THEN /\ rowlog' = Append(log, Event("warn", "google", idx))
                      /\ pc' = "fallback"
                 ELSE /\ rowlog' = log
                      /\ pc' = "store"
              /\ sinceCall' = since /\ lastErr' = err
              /\ UNCHANGED <<src, ckpt, ckptSet, out, outWrites, runs, df, idx,
                             visited, resumeSet, original_text,
                             ckptLog, delays, stats>>
    ELSE /\ result' = ret
         /\ attempt' = 0
         /\ rowlog' = log
         /\ pc' = "store"
         /\ sinceCall' = since /\ lastErr' = err
         /\ UNCHANGED <<src, ckpt, ckptSet, out, outWrites, runs, df, idx,
                        visited, resumeSet, original_text,
                        ckptLog, delays, stats>>

\* line 38: translator.translate(text) returns v
CallSucceeds(vals) ==
    /\ pc \in {"primary", "fallback"}
    /\ \E v \in vals :
         Return(v, rowlog \o << Event("call", Who, attempt),
                                 Event("ok", Who, attempt) >>,
                IF FirstCall THEN 0 ELSE sinceCall, <<>>)
    /\ UNCHANGED truncVars

\* lines 39-44: translator.translate(text) raises an exception of errs
CallFailsWith(errs) ==
    /\ pc \in {"primary", "fallback"}
    /\ \E e \in errs :
         LET log == rowlog \o << Event("call", Who, attempt),
                                 Event("error", Who, attempt + 1) >>
             since == IF FirstCall THEN 0 ELSE sinceCall
         IN  IF LastAttempt(attempt)
             THEN Return(Str(FailureMarker(e)), log, since, e)
             ELSE LET slept == Append(log, Event("sleep", Who, BackoffDelay(attempt)))
                      after == Later(since, BackoffDelay(attempt))
                  IN  IF attempt + 1 < max_retries
                      THEN /\ attempt' = attempt + 1
                           /\ rowlog' = slept
                           /\ sinceCall' = after /\ lastErr' = e
                           /\ UNCHANGED <<src, ckpt, ckptSet, out, outWrites, pc,
                                          runs, df, idx, visited, resumeSet,
                                          original_text, result,
                                          ckptLog, delays, stats>>
                      ELSE Return(Str(ExhaustedText), slept, after, e)
    /\ UNCHANGED truncVars

CallFails == CallFailsWith(Errors)

\* line 75: df.at[index, 'translated_summary'] = truncate_text(translated_text,
\* 150); len() of a value that is no text raises TypeError, uncaught
Store ==
    /\ pc = "store"
    /\ IF result.k # "str"
       THEN Dies("TypeError")
       ELSE /\ df' = At(df, idx, Str(Stored(result.s)))
            /\ pc' = IF CheckpointDue(idx) THEN "ckpt" ELSE "sleep"
            /\ UNCHANGED <<src, ckpt, ckptSet, out, outWrites, runs, idx, visited,
                           resumeSet, original_text, attempt, result, rowlog,
                           lastErr, ckptLog, delays, sinceCall, stats>>
    /\ UNCHANGED truncVars

\* lines 78-80: df.to_csv(checkpoint_file, index=False)
SaveCheckpoint ==
    /\ pc = "ckpt"
    /\ ckpt' = File(to_csv(df))
    /\ ckptSet' = SetRows(df)
    /\ ckptLog' = Append(ckptLog, idx)
    /\ pc' = "sleep"
    /\ UNCHANGED <<src, out, outWrites, runs, df, idx, visited, resumeSet,
                   original_text, attempt, result, rowlog,
                   lastErr, delays, sinceCall, stats>>
    /\ UNCHANGED truncVars

\* lines 87-90: time.sleep(1), then the next row
RateLimit ==
    /\ pc = "sleep"
    /\ idx' = idx + 1
    /\ rowlog' = <<>>
    /\ result' = NaN /\ original_text' = <<>> /\ lastErr' = <<>>
    /\ delays' = delays + 1
    /\ sinceCall' = Later(sinceCall, RateDelay)
    /\ pc' = "loop"
    /\ UNCHANGED <<src, ckpt, ckptSet, out, outWrites, runs, df, visited,
                   resumeSet, attempt, ckptLog, stats>>
    /\ UNCHANGED truncVars

\* lines 92-96: the loop is over: df.to_csv(output_file_path, index=False)
Finish ==
    /\ pc = "loop" /\ ~HasNext(idx, Len(df))
    /\ out' = File(to_csv(df))
    /\ outWrites' = outWrites + 1
    /\ pc' = "stats"
    /\ UNCHANGED <<src, ckpt, ckptSet, runs, df, idx, visited, resumeSet,
                   original_text, attempt, result, rowlog,
                   lastErr, ckptLog, delays, sinceCall, stats>>
    /\ UNCHANGED truncVars

\* lines 99-109: the statistics, and the end of the script
Report ==
    /\ pc = "stats"
    /\ stats' = Statistics(df)
    /\ pc' = "done"
    /\ UNCHANGED <<src, ckpt, ckptSet, out, outWrites, runs, df, idx, visited,
                   resumeSet, original_text, attempt, result, rowlog,
                   lastErr, ckptLog, delays, sinceCall>>
    /\ UNCHANGED truncVars

\* the process is killed between two steps
Kill ==
    /\ pc \in Running \cup {"translators", "stats"}
    /\ runs < MaxRuns
    /\ Dies("killed")
    /\ UNCHANGED truncVars

\* the first k rows of a table as they are in its file
CutRows(d, k) == SubSeq(to_csv(d), 1, k)

\* the process is killed while df.to_csv of line 79 is writing: the file has
\* been truncated and holds nothing, or the header and the first k rows
\* (k = 0: the header alone)
KillDuringSave ==
    /\ pc = "ckpt"
    /\ runs < MaxRuns
    /\ \/ ckpt' = EmptyFile /\ ckptSet' = {}
       \/ \E k \in 0..(Len(df) - 1) :
            /\ ckpt' = File(CutRows(df, k))
            /\ ckptSet' = { i \in SetRows(df) : i < k }
    /\ pc' = "killed"
    /\ df' = <<>> /\ idx' = 0 /\ visited' = {} /\ resumeSet' = {}
    /\ original_text' = <<>> /\ attempt' = 0 /\ result' = NaN /\ rowlog' = <<>>
    /\ outWrites' = 0
    /\ lastErr' = <<>> /\ ckptLog' = <<>> /\ delays' = 0 /\ sinceCall' = -1
    /\ stats' = NoStats
    /\ UNCHANGED <<src, out, runs>>
    /\ UNCHANGED truncVars

\* the process is killed while df.to_csv of line 95 is writing: the output
\* file holds nothing, or the header and the first k rows
KillDuringFinish ==
    /\ pc = "loop" /\ ~HasNext(idx, Len(df))
    /\ runs < MaxRuns
    /\ \/ out' = EmptyFile
       \/ \E k \in 0..(Len(df) - 1) : out' = File(CutRows(df, k))
    /\ pc' = "killed"
    /\ df' = <<>> /\ idx' = 0 /\ visited' = {} /\ resumeSet' = {}
    /\ original_text' = <<>> /\ attempt' = 0 /\ result' = NaN /\ rowlog' = <<>>
    /\ outWrites' = 0
    /\ lastErr' = <<>> /\ ckptLog' = <<>> /\ delays' = 0 /\ sinceCall' = -1
    /\ stats' = NoStats
    /\ UNCHANGED <<src, ckpt, ckptSet, runs>>
    /\ UNCHANGED truncVars

Next ==
    \/ Load
    \/ MakeTranslators(BOOLEAN)
    \/ SkipRow
    \/ BeginRow
    \/ CallSucceeds(RetVals)
    \/ CallFails
    \/ Store
    \/ SaveCheckpoint
    \/ RateLimit
    \/ Finish
    \/ Report
    \/ Kill
    \/ KillDuringSave
    \/ KillDuringFinish

Spec == Init /\ [][Next]_vars

\* --------------------------------------------------------------- fairness
\* The steps of a running process.  An interpreter that is not killed goes
\* on to its next statement, and every provider call is taken to return or
\* raise.
ProgramStep ==
    \/ MakeTranslators(BOOLEAN)
    \/ SkipRow
    \/ BeginRow
    \/ CallSucceeds(TextVals)
    \/ CallFails
    \/ Store
    \/ SaveCheckpoint
    \/ RateLimit
    \/ Finish
    \/ Report

\* Providers that keep to translate(text) -> text | raises.
LiveNext ==
    \/ Load
    \/ ProgramStep
    \/ Kill
    \/ KillDuringSave
    \/ KillDuringFinish

LiveSpec == Init /\ [][LiveNext]_vars /\ WF_vars(ProgramStep)

\* ---------------------------------------------------- a long source file
\* One uninterrupted run over a source of LongRows rows, enough for the
\* checkpoint of row index 10, with providers that answer at once.
LongVals == { Str(OkText), Str(<<>>) }

InitLong ==
    /\ src = [i \in 1..LongRows |-> Hola]
    /\ ckpt = NoFile /\ ckptSet = {}
    /\ out = NoFile /\ outWrites = 0
    /\ pc = "start" /\ runs = 0
    /\ df = <<>> /\ idx = 0 /\ visited = {} /\ resumeSet = {}
    /\ original_text = <<>> /\ attempt = 0 /\ result = NaN /\ rowlog = <<>>
    /\ MemoryInit
    /\ TruncIdle

LongNext ==
    \/ Load
    \/ MakeTranslators(BOOLEAN)
    \/ BeginRow
    \/ CallSucceeds(LongVals)
    \/ Store
    \/ SaveCheckpoint
    \/ RateLimit
    \/ Finish
    \/ Report

LongSpec == InitLong /\ [][LongNext]_vars

\* ------------------------------------------- truncate_text on its own
TruncChars == {"a", " ", "."}

TruncTexts == UNION { [1..n -> TruncChars] : n \in 0..MaxTextLen }

InitTrunc ==
    /\ src = <<>> /\ ckpt = NoFile /\ ckptSet = {}
    /\ out = NoFile /\ outWrites = 0
    /\ pc = "off" /\ runs = 0
    /\ df = <<>> /\ idx = 0 /\ visited = {} /\ resumeSet = {}
    /\ original_text = <<>> /\ attempt = 0 /\ result = NaN /\ rowlog = <<>>
    /\ MemoryInit
    /\ t_pc = "in"
    /\ t_text \in TruncTexts
    /\ t_n \in 0..MaxCut
    /\ t_once = <<>> /\ t_twice = <<>>

\* truncate_text(text, n)
TruncateOnce ==
    /\ t_pc = "in"
    /\ t_once' = truncate_text(t_text, t_n)
    /\ t_pc' = "once"
    /\ UNCHANGED <<t_text, t_n, t_twice>>
    /\ UNCHANGED pipeVars

\* truncate_text(truncate_text(text, n), n)
TruncateTwice ==
    /\ t_pc = "once"
    /\ t_twice' = truncate_text(t_once, t_n)
    /\ t_pc' = "twice"
    /\ UNCHANGED <<t_text, t_n, t_once>>
    /\ UNCHANGED pipeVars

NextTrunc == TruncateOnce \/ TruncateTwice

TruncSpec == InitTrunc /\ [][NextTrunc]_vars

\* ------------------------------------------------- reading the row's log
Positions(ev, who) ==
    { i \in 1..Len(rowlog) : rowlog[i].ev = ev /\ rowlog[i].who = who }

Count(ev, who) == Cardinality(Positions(ev, who))

\* the delays slept by translate_with_backoff for translator who, in order
SleepsOf(who) ==
    LET sel == SelectSeq(rowlog, LAMBDA e : e.ev = "sleep" /\ e.who = who)
    IN  [i \in 1..Len(sel) |-> sel[i].n]

Before(S, T) == \A i \in S : \A j \in T : i < j

\* the row of the loop is being processed (it was pending), not passed over
Processing ==
    \/ pc \in {"primary", "fallback", "store"}
    \/ pc \in {"ckpt", "sleep"} /\ result.k = "str"

\* the row of the loop has been processed and stored
AfterStore == pc \in {"ckpt", "sleep"} /\ result.k = "str"

\* ================================================================ claims

\* C1  (as claimed) Coverage: when a run has completed, every row of the
\* dataset, that is every row of the source file, is a row of the in-memory
\* table with a translated_summary that is not missing, and it is that table
\* which the output file holds.
C1_Coverage ==
    pc = "done" =>
        /\ Len(df) = Len(src)
        /\ \A i \in 1..Len(src) :
             i <= Len(df) /\ df[i].translated_summary.k = "str"
        /\ out = File(to_csv(df))

\* C2  (as claimed) A run that resumed from a checkpoint calls no provider
\* for a row whose translated_summary was set, to any value, in the dataset
\* saved to that checkpoint.
C2_NoRetranslation ==
    (pc \in Running /\ \E k \in 1..Len(rowlog) : rowlog[k].ev = "call")
        => idx \notin resumeSet

\* C3  (as claimed) A run that is not killed, once it has loaded its table,
\* visits every row, ends, and writes the output file once, after the last
\* row was visited, whichever calls of the two providers fail.
C3_BatchCompletes ==
    /\ [](pc \in Running \cup {"translators"}
            => <>(pc = "done" \/ pc = "killed"))
    /\ [](pc = "done" => outWrites = 1 /\ visited = 0..(Len(df) - 1))
    /\ [](pc \in Running => outWrites = 0)

\* C4  When every call of the primary provider fails, the row has exactly
\* max_retries calls of the primary provider, all before any call of the
\* fallback provider, and the fallback provider is called next.
C4_RetriesBeforeFallback ==
    /\ Count("call", "google") <= max_retries
    /\ (/\ pc \in {"fallback", "store", "ckpt", "sleep"}
        /\ Count("call", "google") > 0
        /\ Count("ok", "google") = 0)
       => /\ Count("call", "google") = max_retries
          /\ Count("error", "google") = max_retries
          /\ pc = "fallback" \/ Count("call", "mymemory") > 0
          /\ Before(Positions("call", "google"), Positions("call", "mymemory"))

\* the primary provider failed five times and the fallback has been called
C4_Witness ==
    /\ pc = "store"
    /\ Count("error", "google") = max_retries
    /\ Count("call", "mymemory") > 0

\* C5  (as claimed) A translate_with_backoff call whose provider fails on
\* every attempt sleeps 1, 2, 4, 8, 16.
C5_SleepsWithSixteen ==
    \A who \in {"google", "mymemory"} :
        Count("error", who) = max_retries
            => SleepsOf(who) = <<1, 2, 4, 8, 16>>

\* C5  (amended) While a provider fails on every attempt, translate_with_backoff
\* sleeps 2^attempt after each failed attempt but the last: 1, 2, 4, 8 in
\* that order, and nothing after the fifth failure; the primary's sleeps all
\* precede the fallback warning and the fallback's calls.
C5_BackoffSequence ==
    \A who \in {"google", "mymemory"} :
        Count("ok", who) = 0 =>
            /\ SleepsOf(who) = Slice(<<1, 2, 4, 8>>, Count("error", who))
            /\ Before(Positions("sleep", "google"),
                      Positions("warn", "google") \cup Positions("call", "mymemory"))

\* the fallback provider, too, failed on every attempt
C5_Witness ==
    /\ pc = "store"
    /\ Count("error", "google") = max_retries
    /\ Count("error", "mymemory") = max_retries

\* C6  (as claimed) The fallback provider is called only when the primary
\* provider failed on all max_retries attempts; once a primary attempt has
\* succeeded, whatever its text, the fallback is not called.
C6_FallbackOnlyAfterExhaustion ==
    /\ (pc = "fallback" \/ Count("call", "mymemory") > 0)
          => Count("error", "google") = max_retries
    /\ Count("ok", "google") > 0
          => /\ pc # "fallback"
             /\ Count("call", "mymemory") = 0

\* C7  (as claimed) When the primary provider failed on every attempt and
\* the fallback provider returned text t, the row is stored as
\* truncate_text(t, 150), t itself when it has at most 150 characters, the
\* stored value is no failure marker, and the warning naming the row index
\* was logged before the first call of the fallback.
C7_FallbackSuccessWins ==
    (/\ AfterStore
     /\ Count("error", "google") = max_retries
     /\ Count("ok", "mymemory") > 0)
    => /\ Row(idx).translated_summary = Str(truncate_text(result.s, TruncLen))
       /\ Len(result.s) <= TruncLen => Row(idx).translated_summary = result
       /\ ~IsFailure(Row(idx).translated_summary.s)
       /\ (idx + 1) \notin FailedRows(df)
       /\ \E w \in Positions("warn", "google") :
            /\ rowlog[w].n = idx
            /\ Before({w}, Positions("call", "mymemory"))

\* C8  (as claimed) A pending row whose summary is missing or empty is
\* processed with no call of either provider and is stored as the empty text.
C8_EmptyShortCircuit ==
    (Processing /\ isna(Row(idx).summary))
        => /\ pc \notin {"primary", "fallback"}
           /\ \A k \in 1..Len(rowlog) : rowlog[k].ev # "call"
           /\ pc \in {"ckpt", "sleep"} => Row(idx).translated_summary = Str(<<>>)

\* C9  (as claimed) truncate_text(truncate_text(text, n), n) =
\* truncate_text(text, n)
C9_TruncateIdempotent ==
    t_pc = "twice" => t_twice = t_once

\* C10  (as claimed) For a text longer than n, the result has at most n
\* characters whenever the first n characters hold a space, and at most n + 3
\* otherwise.
C10_TruncateLength ==
    (t_pc # "in" /\ Len(t_text) > t_n) =>
        /\ HasSpace(Slice(t_text, t_n)) => Len(t_once) <= t_n
        /\ Len(t_once) <= t_n + 3

\* the last row index that is past the checkpoint test of line 78
PastSave == IF pc = "sleep" THEN idx ELSE idx - 1

\* the multiples of ten up to row index lim, in order
TensUpTo(lim) ==
    IF lim < 0 THEN <<>>
    ELSE [k \in 1..((lim \div CheckpointEvery) + 1) |-> CheckpointEvery * (k - 1)]

\* rows that are set in memory and missing in the checkpoint file as read
StaleRows ==
    { i \in 0..(Len(df) - 1) :
        /\ ~isna(Row(i).translated_summary)
        /\ isna(read_csv_cell(ckpt.rows[i + 1].translated_summary)) }

\* C11  (as claimed) In a run started without a checkpoint, the checkpoints
\* logged are those of the row indices 0, 10, 20, ... processed so far; the
\* save comes right after that row is stored, and the file is the whole
\* table as it was then: after rows 0-9 the file, as a start would read it,
\* has row 0 set and rows 1-9 missing.
C11_CheckpointTrigger ==
    (pc \in Running \cup {"done"} /\ resumeSet = {}) =>
        /\ ckptLog = TensUpTo(PastSave)
        /\ pc = "ckpt" => /\ CheckpointDue(idx)
                          /\ ~isna(Row(idx).translated_summary)
        /\ ckptLog # <<>> =>
             LET last == ckptLog[Len(ckptLog)] IN
             /\ ckptSet = 0..last
             /\ ckpt = File([i \in 1..Len(df) |->
                    [summary |-> to_csv_cell(df[i].summary),
                     translated_summary |->
                        IF i - 1 <= last
                        THEN to_csv_cell(df[i].translated_summary)
                        ELSE <<>>]])
        /\ (pc = "loop" /\ idx = CheckpointEvery) =>
               /\ ckptSet = {0}
               /\ SetRows(read_csv(ckpt.rows)) = {0}

\* C12  (as claimed) Once a checkpoint file exists, at most 9 rows are set
\* in memory and not set in the checkpoint file.
C12_BoundedStaleness ==
    (pc \in Running /\ ckpt.exists) =>
        Cardinality(StaleRows) <= CheckpointEvery - 1

\* the process has just loaded the checkpoint file
JustResumed == pc = "loop" /\ idx = 0 /\ ckpt.exists

\* translated_summary of row i in the dataset the checkpoint was written from
SavedTranslated(i) ==
    IF i \in ckptSet THEN Str(ckpt.rows[i + 1].translated_summary) ELSE NaN

\* C13  (as claimed) The dataset loaded from the checkpoint has the rows of
\* the source, in order, with the same summary, and every row is set or
\* missing, with the same value, as it was in the dataset that was saved.
C13_RowAlignment ==
    JustResumed =>
        /\ Len(df) = Len(src)
        /\ \A i \in 0..(Len(df) - 1) :
             /\ Row(i).summary = read_csv_cell(src[i + 1])
             /\ Row(i).translated_summary = SavedTranslated(i)

\* row i is a failure marker in the checkpoint file
CkptMarker(i) ==
    /\ ckpt.exists /\ i < Len(ckpt.rows)
    /\ \E p \in FailurePrefixes : StartsWith(ckpt.rows[i + 1].translated_summary, p)

\* this run loaded the checkpoint file (line 19 found it) and has not
\* rewritten it
OnLoadedCheckpoint == pc \notin Stopped /\ ckpt.exists /\ ckptLog = <<>>

\* C14  A row that is a failure marker in the checkpoint a run loaded keeps
\* that marker in memory throughout the run, is passed over with no provider
\* call, and has the same marker in the output file.
C14_MarkersTerminal ==
    \A i \in 0..(Len(df) - 1) :
        (pc \in Running \cup {"done"} /\ OnLoadedCheckpoint /\ CkptMarker(i)) =>
            /\ Row(i).translated_summary = Str(ckpt.rows[i + 1].translated_summary)
            /\ idx = i => pc \in {"loop", "sleep"} /\ rowlog = <<>>
            /\ pc = "done" =>
                 out.rows[i + 1].translated_summary
                     = ckpt.rows[i + 1].translated_summary

\* a resumed run has completed over a checkpoint whose row 0 was the marker
\* of two exhausted providers
C14_Witness ==
    /\ pc = "done" /\ OnLoadedCheckpoint /\ Len(df) > 1
    /\ \E e \in Errors : ckpt.rows[1].translated_summary = FailureMarker(e)

\* C15  (as claimed) An error raised while a row is translated, outside the
\* try block of translate_with_backoff, is caught by translate_text: no
\* exception leaves translate_text and ends the run.
C15_ErrorsContained ==
    pc # NoRequests

\* ------------------------------------------------- two kinds of provider error
\* The same program with providers that raise two different exceptions, so
\* that the last error of a call differs from the errors before it, and
\* that may return any text, one that reads like a failure marker included.
OtherError == <<"f">>
Errors2 == Errors \cup { OtherError }

\* a translation that reads like the marker of line 42
MarkerText == TranslationFailed \o <<":", " ">> \o OtherError
RetryVals == RetVals \cup { Str(MarkerText) }

RetryNext ==
    \/ Load
    \/ MakeTranslators(BOOLEAN)
    \/ SkipRow
    \/ BeginRow
    \/ CallSucceeds(RetryVals)
    \/ CallFailsWith(Errors2)
    \/ Store
    \/ SaveCheckpoint
    \/ RateLimit
    \/ Finish
    \/ Report

RetrySpec == Init /\ [][RetryNext]_vars

Translators == {"google", "mymemory"}

\* translate_with_backoff has just returned for translator who
Returned(who) ==
    IF who = "google"
    THEN pc \in {"fallback", "store"} /\ Count("call", "mymemory") = 0
    ELSE pc = "store" /\ Count("call", "mymemory") > 0

\* C16  (as claimed) translate_with_backoff makes at most max_retries calls,
\* none after a successful one, and leaves only by returning; when it
\* returns after a success the result is the provider's value, and it
\* returns "Translation failed: <error>" exactly when max_retries calls have
\* failed, <error> being the error of the last.
C16_RetryOutcome ==
    \A who \in Translators :
        LET oks == Positions("ok", who)
            errs == Positions("error", who)
            calls == Positions("call", who)
        IN  /\ Cardinality(oks) <= 1
            /\ Cardinality(calls) <= max_retries
            /\ Cardinality(calls) = Cardinality(oks) + Cardinality(errs)
            /\ \A i \in oks : \A j \in calls \cup errs : j < i
            /\ (who = Who /\ pc \in {"primary", "fallback"}) =>
                   /\ oks = {} /\ attempt = Cardinality(errs)
                   /\ attempt < max_retries
            /\ Returned(who) =>
                   /\ (oks = {}) <=> (Cardinality(errs) = max_retries)
                   /\ (oks = {}) <=>
                        \E e \in Errors2 :
                            result = Str(TranslationFailed \o <<":", " ">> \o e)
                   /\ oks = {} =>
                        result = Str(TranslationFailed \o <<":", " ">> \o lastErr)
                   /\ oks # {} => result \in RetryVals /\ lastErr = <<>>

\* C17  While the loop runs, every row below the row being visited has a
\* translated_summary that is not missing, so has the row being visited once
\* it has been stored; a missing row is one the loop has not passed yet.
C17_LoopInvariant ==
    pc \in Running \cup {"done"} =>
        \A i \in 0..(Len(df) - 1) :
            /\ i < idx => ~isna(Row(i).translated_summary)
            /\ (i = idx /\ pc \in {"ckpt", "sleep"}) => ~isna(Row(i).translated_summary)
            /\ isna(Row(i).translated_summary) => i >= idx

\* the loop is at the last of several rows in a run that began with every
\* row missing, and one of the rows behind it holds a failure marker
C17_Witness ==
    /\ pc = "loop" /\ idx = Len(df) - 1 /\ idx > 0 /\ resumeSet = {}
    /\ isna(Row(idx).translated_summary)
    /\ FailedRows(df) # {}

\* C18  A step of the running loop changes the table only when it stores the
\* result of the row being processed, and then only translated_summary of
\* that row: the number of rows, every summary and the translated_summary of
\* every other row stay as they were.
C18_Frame ==
    [][ (pc \in Running /\ pc' \in Running) =>
          IF pc = "store"
          THEN /\ Len(df') = Len(df)
               /\ \A i \in 0..(Len(df) - 1) :
                    /\ df'[i + 1].summary = df[i + 1].summary
                    /\ i # idx => df'[i + 1].translated_summary
                                      = df[i + 1].translated_summary
               /\ df'[idx + 1].translated_summary = Str(Stored(result.s))
          ELSE df' = df ]_vars

\* the second row has just been stored, after a fallback, next to a first
\* row that is set and a summary that is not the stored text
C18_Witness ==
    /\ AfterStore /\ idx = 1 /\ Count("call", "mymemory") > 0
    /\ ~isna(Row(0).translated_summary)
    /\ Row(1).summary # Row(1).translated_summary

\* C19  The loop sleeps RateDelay after every row it visits, passed over or
\* not: as many delays as rows visited, Len(df) delays in a completed run,
\* and the first provider call of a row comes at least RateDelay after the
\* first provider call of the row before.
C19_RateLimit ==
    /\ pc \in Running => delays = idx
    /\ pc = "done" => delays = Len(df)
    /\ FirstCall => sinceCall = -1 \/ sinceCall >= 1

\* a resumed run has completed: its first row was passed over, its second
\* one was translated, and each was followed by a delay
C19_Witness ==
    /\ pc = "done" /\ resumeSet = {0} /\ Len(df) = 2 /\ delays = 2
    /\ sinceCall = 1

\* C20  In the statistics of a completed run the successful count is the
\* number of rows; the failed count is the number of rows with a failure
\* prefix, and those rows are in the successful count as well.
C20_Statistics ==
    pc = "done" =>
        /\ stats.total = Len(df)
        /\ stats.successful = stats.total
        /\ stats.failed = Cardinality(FailedRows(df))
        /\ \A i \in FailedRows(df) : ~isna(df[i].translated_summary)
        /\ stats.successful + stats.failed = stats.total + stats.failed

\* a run has completed with a failure marker in one of two rows
C20_Witness ==
    pc = "done" /\ stats.total = 2 /\ stats.failed = 1 /\ stats.successful = 2
====
